---- MODULE Spec2Model ----
(***************************************************************************)
(* A model of the SCTT type checker (src/src/sctt_typechecker.rs): the     *)
(* Level / IntervalPoint / Term / Value / Neutral data model, Environment  *)
(* and Context, normalization by evaluation (eval, quote, normalize), the  *)
(* depth-bounded conversion checker (values_equal, neutrals_equal) and the *)
(* bidirectional checker (check, infer).                                   *)
(*                                                                         *)
(* The functions of the checker are pure; each is an operator computed as  *)
(* the code computes it.  A call that does not return (panic!, todo!, or a *)
(* recursion that outgrows the call stack) yields an Abort record, which   *)
(* every caller passes on, as unwinding does.                              *)
(***************************************************************************)
EXTENDS Integers, Sequences, FiniteSets, TLC

VARIABLES
    max_depth,   \* TypeChecker.max_depth of the checker in use
    ctx,         \* a Context the host holds on to (the receiver of extend)
    ctx2,        \* the Context obtained from ctx by extend calls
    log,         \* the types given to the extend calls that built ctx, in order
    log2,        \* the types given to the extend calls that built ctx2, in order
    call         \* the last call made, with its arguments and its result

vars == <<max_depth, ctx, ctx2, log, log2, call>>

(***************************************************************************)
(* Bounds of the model.                                                    *)
(***************************************************************************)
\* Deepest nesting of eval / quote / apply_* frames the call stack holds.
StackLimit == 24
\* Largest max_depth a TypeChecker is built with (the field is public).
MaxMaxDepth == 2
\* Longest Context built by extend.
MaxCtx == 2
\* Largest n of a Level::Succ(n) given as input.
MaxLevel == 2
\* Largest De Bruijn index looked up.
MaxIdx == 3

\* Longest document edited by the operational transform.
MaxDoc == 3
\* Longest text inserted.
MaxText == 2

(***************************************************************************)
(* Level                                                                   *)
(***************************************************************************)
LevelZero == [k |-> "Zero"]
LevelSuccOf(n) == [k |-> "Succ", n |-> n]
LevelOmega == [k |-> "Omega"]

\* The derived order of Level (PartialOrd, Ord): Zero < Succ(n) < Omega, and
\* Succ(i) <= Succ(j) exactly when i <= j.
LevelRank(l) == CASE l.k = "Zero" -> 0 [] l.k = "Succ" -> 1 [] l.k = "Omega" -> 2
LevelLe(a, b) ==
    \/ LevelRank(a) < LevelRank(b)
    \/ (LevelRank(a) = LevelRank(b) /\ (a.k = "Succ" => a.n <= b.n))

\* The derived equality of Level (PartialEq): same variant, same n.
LevelEq(a, b) == a = b

\* Level::max
LevelMax(a, b) ==
    IF a.k = "Omega" \/ b.k = "Omega" THEN LevelOmega
    ELSE IF a.k = "Zero" THEN b
    ELSE IF b.k = "Zero" THEN a
    ELSE LevelSuccOf(IF a.n >= b.n THEN a.n ELSE b.n)

\* Level::succ with the successor of Zero off by one.
LevelSuccFromZero(l) ==
    CASE l.k = "Zero" -> LevelSuccOf(0)
      [] l.k = "Succ" -> LevelSuccOf(l.n + 1)
      [] l.k = "Omega" -> LevelOmega

\* Level::succ
LevelSucc(l) ==
    CASE l.k = "Zero" -> LevelSuccOf(1)
      [] l.k = "Succ" -> LevelSuccOf(l.n + 1)
      [] l.k = "Omega" -> LevelOmega

(***************************************************************************)
(* IntervalPoint                                                           *)
(***************************************************************************)
IntervalZero == [tag |-> "Zero"]
IntervalOne == [tag |-> "One"]
IntervalVar(i) == [tag |-> "Var", idx |-> i]
IntervalMeet(i, j) == [tag |-> "Meet", l |-> i, r |-> j]
IntervalJoin(i, j) == [tag |-> "Join", l |-> i, r |-> j]
IntervalNeg(i) == [tag |-> "Neg", i |-> i]

(***************************************************************************)
(* Term                                                                    *)
(***************************************************************************)
TermVar(i) == [tag |-> "Var", idx |-> i]
TermUniverse(l) == [tag |-> "Universe", level |-> l]
TermLambda(ty, body) == [tag |-> "Lambda", ty |-> ty, body |-> body]
TermApp(fun, arg) == [tag |-> "App", fun |-> fun, arg |-> arg]
TermPi(a, b) == [tag |-> "Pi", a |-> a, b |-> b]
TermPathType(a, start, end) == [tag |-> "PathType", a |-> a, start |-> start, end |-> end]
TermPathLambda(body) == [tag |-> "PathLambda", body |-> body]
TermPathApp(path, i) == [tag |-> "PathApp", path |-> path, i |-> i]
TermInterval(i) == [tag |-> "Interval", i |-> i]
TermTransport(ty, i, j, t) == [tag |-> "Transport", ty |-> ty, i |-> i, j |-> j, t |-> t]
TermHcomp(ty, sys, base) == [tag |-> "Hcomp", ty |-> ty, sys |-> sys, base |-> base]

(***************************************************************************)
(* Neutral, Closure, Value                                                 *)
(***************************************************************************)
NeutralVar(i) == [tag |-> "Var", idx |-> i]
NeutralApp(fun, arg) == [tag |-> "App", fun |-> fun, arg |-> arg]
NeutralPathApp(path, i) == [tag |-> "PathApp", path |-> path, i |-> i]

Closure(env, body) == [env |-> env, body |-> body]

ValueNeutral(n) == [tag |-> "Neutral", n |-> n]
ValueUniverse(l) == [tag |-> "Universe", level |-> l]
ValueLambda(c) == [tag |-> "Lambda", closure |-> c]
ValuePi(a, c) == [tag |-> "Pi", a |-> a, closure |-> c]
ValuePathType(a, start, end) == [tag |-> "PathType", a |-> a, start |-> start, end |-> end]
ValuePathLambda(c) == [tag |-> "PathLambda", closure |-> c]
ValueInterval(i) == [tag |-> "Interval", i |-> i]

(***************************************************************************)
(* Calls that do not return: panic!, todo!, or the call stack exhausted.   *)
(***************************************************************************)
Abort(why) == [tag |-> "Abort", why |-> why]
IsAbort(x) == x.tag = "Abort"

None == [tag |-> "None"]
Some(v) == [tag |-> "Some", v |-> v]

(***************************************************************************)
(* Environment                                                             *)
(***************************************************************************)
\* Environment::new
EnvironmentNew == <<>>

\* Environment::extend: clone, then push on the clone.
EnvironmentExtend(env, v) == Append(env, v)

\* Environment::lookup: values.len().checked_sub(idx + 1), then values.get.
EnvironmentLookup(env, idx) ==
    IF Len(env) >= idx + 1 THEN Some(env[(Len(env) - (idx + 1)) + 1]) ELSE None

(***************************************************************************)
(* Context                                                                 *)
(***************************************************************************)
\* Context::new
ContextNew == [types |-> <<>>, env |-> EnvironmentNew]

\* Context::extend taking the new variable's index after the push as
\* types.len() instead of types.len() - 1.
ContextExtendOffByOne(self, ty) ==
    LET types == Append(self.types, ty)
        var == ValueNeutral(NeutralVar(Len(types)))
    IN [types |-> types, env |-> EnvironmentExtend(self.env, var)]

\* Context::extend pushing the type without binding the variable in env.
ContextExtendTypesOnly(self, ty) == [types |-> Append(self.types, ty), env |-> self.env]

\* Context::extend, the value returned: the clone with ty pushed on types and
\* Neutral(Var(types.len() - 1)) pushed on env.
ContextExtend(self, ty) ==
    LET types == Append(self.types, ty)
        var == ValueNeutral(NeutralVar(Len(types) - 1))
    IN [types |-> types, env |-> EnvironmentExtend(self.env, var)]

\* Context::extend pushing on the receiver itself instead of on a clone.
ContextExtendCallInPlace(self, ty) ==
    [self |-> ContextExtend(self, ty), ret |-> ContextExtend(self, ty)]

\* Context::extend as a call on a receiver held by the caller: the receiver
\* after the call (&self: every push goes to the clone) and the value returned.
ContextExtendCall(self, ty) == [self |-> self, ret |-> ContextExtend(self, ty)]

\* Context::lookup indexing from the front: types.get(idx).
ContextLookupFromFront(self, idx) ==
    IF idx < Len(self.types) THEN Some(self.types[idx + 1]) ELSE None

\* Context::lookup
ContextLookup(self, idx) ==
    IF Len(self.types) >= idx + 1
    THEN Some(self.types[(Len(self.types) - (idx + 1)) + 1])
    ELSE None

(***************************************************************************)
(* substitute_interval: only Interval and Lambda are rewritten.            *)
(***************************************************************************)
\* substitute_interval taking the term variable Var(0) for the path variable.
RECURSIVE SubstituteIntervalVar(_, _)
SubstituteIntervalVar(term, i) ==
    CASE term.tag = "Interval" -> TermInterval(i)
      [] term.tag = "Var" -> IF term.idx = 0 THEN TermInterval(i) ELSE term
      [] term.tag = "Lambda" ->
            TermLambda(SubstituteIntervalVar(term.ty, i), SubstituteIntervalVar(term.body, i))
      [] OTHER -> term

\* TypeChecker::substitute_interval
RECURSIVE SubstituteInterval(_, _)
SubstituteInterval(term, i) ==
    CASE term.tag = "Interval" -> TermInterval(i)
      [] term.tag = "Lambda" ->
            TermLambda(SubstituteInterval(term.ty, i), SubstituteInterval(term.body, i))
      [] OTHER -> term

(***************************************************************************)
(* eval, apply_value, apply_path, apply_closure.  d counts the frames on   *)
(* the call stack; a call made when the stack is full does not return.     *)
(***************************************************************************)
RECURSIVE Eval(_, _, _)
RECURSIVE ApplyValue(_, _, _)
RECURSIVE ApplyPath(_, _, _)
RECURSIVE ApplyClosure(_, _, _)

\* TypeChecker::eval
Eval(env, term, d) ==
    IF d > StackLimit THEN Abort("stack overflow")
    ELSE CASE term.tag = "Var" ->
                LET r == EnvironmentLookup(env, term.idx)
                IN IF r.tag = "Some" THEN r.v ELSE ValueNeutral(NeutralVar(term.idx))
           [] term.tag = "Universe" -> ValueUniverse(term.level)
           [] term.tag = "Lambda" -> ValueLambda(Closure(env, term.body))
           [] term.tag = "Pi" ->
                LET a_val == Eval(env, term.a, d + 1)
                IN IF IsAbort(a_val) THEN a_val
                   ELSE ValuePi(a_val, Closure(env, term.b))
           [] term.tag = "App" ->
                LET fun_val == Eval(env, term.fun, d + 1)
                IN IF IsAbort(fun_val) THEN fun_val
                   ELSE LET arg_val == Eval(env, term.arg, d + 1)
                        IN IF IsAbort(arg_val) THEN arg_val
                           ELSE ApplyValue(fun_val, arg_val, d + 1)
           [] term.tag = "PathType" ->
                LET a == Eval(env, term.a, d + 1)
                IN IF IsAbort(a) THEN a
                   ELSE LET s == Eval(env, term.start, d + 1)
                        IN IF IsAbort(s) THEN s
                           ELSE LET e == Eval(env, term.end, d + 1)
                                IN IF IsAbort(e) THEN e
                                   ELSE ValuePathType(a, s, e)
           [] term.tag = "PathLambda" -> ValuePathLambda(Closure(env, term.body))
           [] term.tag = "PathApp" ->
                LET path_val == Eval(env, term.path, d + 1)
                IN IF IsAbort(path_val) THEN path_val
                   ELSE ApplyPath(path_val, term.i, d + 1)
           [] term.tag = "Interval" -> ValueInterval(term.i)
           [] OTHER -> Abort("todo: Other evaluation cases")

\* TypeChecker::apply_value
ApplyValue(fun, arg, d) ==
    CASE fun.tag = "Lambda" -> ApplyClosure(fun.closure, arg, d + 1)
      [] fun.tag = "Neutral" -> ValueNeutral(NeutralApp(fun.n, arg))
      [] OTHER -> Abort("panic: Cannot apply non-function")

\* TypeChecker::apply_path
ApplyPath(path, i, d) ==
    CASE path.tag = "PathLambda" ->
            Eval(path.closure.env, SubstituteInterval(path.closure.body, i), d + 1)
      [] path.tag = "Neutral" -> ValueNeutral(NeutralPathApp(path.n, i))
      [] OTHER -> Abort("panic: Cannot apply non-path")

\* TypeChecker::apply_closure
ApplyClosure(closure, arg, d) ==
    Eval(EnvironmentExtend(closure.env, arg), closure.body, d + 1)

(***************************************************************************)
(* quote, quote_neutral, normalize                                         *)
(***************************************************************************)
RECURSIVE Quote(_, _, _)
RECURSIVE QuoteNeutral(_, _, _)

\* TypeChecker::quote
Quote(level, value, d) ==
    IF d > StackLimit THEN Abort("stack overflow")
    ELSE CASE value.tag = "Neutral" -> QuoteNeutral(level, value.n, d + 1)
           [] value.tag = "Universe" -> TermUniverse(value.level)
           [] value.tag = "Lambda" ->
                LET var == ValueNeutral(NeutralVar(level))
                    body_val == ApplyClosure(value.closure, var, d + 1)
                IN IF IsAbort(body_val) THEN body_val
                   ELSE LET body == Quote(level + 1, body_val, d + 1)
                        IN IF IsAbort(body) THEN body
                           ELSE TermLambda(TermUniverse(LevelZero), body)
           [] value.tag = "Pi" ->
                LET a_term == Quote(level, value.a, d + 1)
                IN IF IsAbort(a_term) THEN a_term
                   ELSE LET var == ValueNeutral(NeutralVar(level))
                            b_val == ApplyClosure(value.closure, var, d + 1)
                        IN IF IsAbort(b_val) THEN b_val
                           ELSE LET b_term == Quote(level + 1, b_val, d + 1)
                                IN IF IsAbort(b_term) THEN b_term
                                   ELSE TermPi(a_term, b_term)
           [] value.tag = "PathType" ->
                LET a == Quote(level, value.a, d + 1)
                IN IF IsAbort(a) THEN a
                   ELSE LET s == Quote(level, value.start, d + 1)
                        IN IF IsAbort(s) THEN s
                           ELSE LET e == Quote(level, value.end, d + 1)
                                IN IF IsAbort(e) THEN e
                                   ELSE TermPathType(a, s, e)
           [] value.tag = "PathLambda" ->
                LET body_val == Eval(value.closure.env, value.closure.body, d + 1)
                IN IF IsAbort(body_val) THEN body_val
                   ELSE LET body == Quote(level, body_val, d + 1)
                        IN IF IsAbort(body) THEN body
                           ELSE TermPathLambda(body)
           [] value.tag = "Interval" -> TermInterval(value.i)

\* TypeChecker::quote_neutral
QuoteNeutral(level, neutral, d) ==
    CASE neutral.tag = "Var" -> TermVar(neutral.idx)
      [] neutral.tag = "App" ->
            LET fun == QuoteNeutral(level, neutral.fun, d + 1)
            IN IF IsAbort(fun) THEN fun
               ELSE LET arg == Quote(level, neutral.arg, d + 1)
                    IN IF IsAbort(arg) THEN arg
                       ELSE TermApp(fun, arg)
      [] neutral.tag = "PathApp" ->
            LET path == QuoteNeutral(level, neutral.path, d + 1)
            IN IF IsAbort(path) THEN path
               ELSE TermPathApp(path, neutral.i)
      [] OTHER -> Abort("todo: Other neutral quoting cases")

\* TypeChecker::normalize
Normalize(env, term) ==
    LET val == Eval(env, term, 0)
    IN IF IsAbort(val) THEN val ELSE Quote(Len(env), val, 0)

(***************************************************************************)
(* Results.  Ok / Err are the two sides of Result<T>; the field deep       *)
(* records whether the call made a values_equal call whose depth exceeded  *)
(* max_depth (an observation of the run, not data of the program).         *)
(***************************************************************************)
OkUnit(deep) == [tag |-> "Ok", deep |-> deep]
OkVal(v, deep) == [tag |-> "Ok", val |-> v, deep |-> deep]
ErrUnboundVariable(idx) == [tag |-> "Err", err |-> "UnboundVariable", idx |-> idx, deep |-> FALSE]
ErrTypeMismatch(expected, found, deep) ==
    [tag |-> "Err", err |-> "TypeMismatch", expected |-> expected, found |-> found, deep |-> deep]
ErrNotAPath(v, deep) == [tag |-> "Err", err |-> "NotAPath", v |-> v, deep |-> deep]
\* NotAFunction reported as NotAPath.
ErrNotAFunctionAsPath(v, deep) == ErrNotAPath(v, deep)
ErrNotAFunction(v, deep) == [tag |-> "Err", err |-> "NotAFunction", v |-> v, deep |-> deep]
ErrNotAUniverse(v) == [tag |-> "Err", err |-> "NotAUniverse", v |-> v, deep |-> FALSE]
ErrUnificationFailure(deep) == [tag |-> "Err", err |-> "UnificationFailure", deep |-> deep]

IsOk(r) == r.tag = "Ok"
IsErr(r) == r.tag = "Err"
WithDeep(r, deep) == IF IsAbort(r) THEN r ELSE [r EXCEPT !.deep = r.deep \/ deep]

(***************************************************************************)
(* Conversion checking: values_equal, neutrals_equal, check_equal          *)
(***************************************************************************)
RECURSIVE ValuesEqual(_, _, _, _)
RECURSIVE NeutralsEqual(_, _, _, _)

\* TypeChecker::values_equal
ValuesEqual(level, v1, v2, depth) ==
    IF depth > max_depth THEN ErrUnificationFailure(TRUE)
    ELSE CASE v1.tag = "Universe" /\ v2.tag = "Universe" ->
                OkVal(LevelEq(v1.level, v2.level), FALSE)
           [] v1.tag = "Lambda" /\ v2.tag = "Lambda" ->
                LET var == ValueNeutral(NeutralVar(level))
                    b1 == ApplyClosure(v1.closure, var, 0)
                    b2 == ApplyClosure(v2.closure, var, 0)
                IN IF IsAbort(b1) THEN b1
                   ELSE IF IsAbort(b2) THEN b2
                   ELSE ValuesEqual(level + 1, b1, b2, depth + 1)
           [] v1.tag = "Pi" /\ v2.tag = "Pi" ->
                LET a_eq == ValuesEqual(level, v1.a, v2.a, depth + 1)
                IN IF IsAbort(a_eq) \/ IsErr(a_eq) THEN a_eq
                   ELSE IF ~a_eq.val THEN OkVal(FALSE, a_eq.deep)
                   ELSE LET var == ValueNeutral(NeutralVar(level))
                            b1 == ApplyClosure(v1.closure, var, 0)
                            b2 == ApplyClosure(v2.closure, var, 0)
                        IN IF IsAbort(b1) THEN b1
                           ELSE IF IsAbort(b2) THEN b2
                           ELSE WithDeep(ValuesEqual(level + 1, b1, b2, depth + 1), a_eq.deep)
           [] v1.tag = "Neutral" /\ v2.tag = "Neutral" ->
                NeutralsEqual(level, v1.n, v2.n, depth)
           [] OTHER -> OkVal(FALSE, FALSE)

\* TypeChecker::neutrals_equal
NeutralsEqual(level, n1, n2, depth) ==
    CASE n1.tag = "Var" /\ n2.tag = "Var" -> OkVal(n1.idx = n2.idx, FALSE)
      [] n1.tag = "App" /\ n2.tag = "App" ->
            LET f_eq == NeutralsEqual(level, n1.fun, n2.fun, depth + 1)
            IN IF IsAbort(f_eq) \/ IsErr(f_eq) THEN f_eq
               ELSE IF ~f_eq.val THEN OkVal(FALSE, f_eq.deep)
               ELSE WithDeep(ValuesEqual(level, n1.arg, n2.arg, depth + 1), f_eq.deep)
      [] OTHER -> OkVal(FALSE, FALSE)

\* check_equal reporting the two values in each other's place.
CheckEqualSwapped(c, v1, v2, ty) ==
    LET r == ValuesEqual(Len(c.types), v1, v2, 0)
    IN IF IsAbort(r) \/ IsErr(r) THEN r
       ELSE IF r.val THEN OkUnit(r.deep)
       ELSE ErrTypeMismatch(v1, v2, r.deep)

\* check_equal taking a failed comparison for an unequal one
\* (values_equal(..).unwrap_or(false) instead of `?`).
CheckEqualSwallow(c, v1, v2, ty) ==
    LET r == ValuesEqual(Len(c.types), v1, v2, 0)
    IN IF IsAbort(r) THEN r
       ELSE IF IsOk(r) /\ r.val THEN OkUnit(r.deep)
       ELSE ErrTypeMismatch(v2, v1, r.deep)

\* TypeChecker::check_equal
CheckEqual(c, v1, v2, ty) ==
    LET r == ValuesEqual(Len(c.types), v1, v2, 0)
    IN IF IsAbort(r) \/ IsErr(r) THEN r
       ELSE IF r.val THEN OkUnit(r.deep)
       ELSE ErrTypeMismatch(v2, v1, r.deep)

\* TypeChecker::infer_universe_level
InferUniverseLevel(c, ty) ==
    IF ty.tag = "Universe" THEN OkVal(ty.level, FALSE) ELSE ErrNotAUniverse(ty)

(***************************************************************************)
(* Bidirectional checking: check, infer                                    *)
(***************************************************************************)
\* check's Lambda arm binding the variable at the value of the annotation.
LambdaDomainFromAnnotation(c, term, ty) == Eval(c.env, term.ty, 0)

\* The type check's Lambda arm binds the variable at: the domain a_ty of the
\* Pi (the annotation is matched by `_`).
LambdaDomain(c, term, ty) == ty.a

\* infer's Lambda arm giving the lambda the type of its annotation.
InferLambdaResultOk(a_val, deep) == OkVal(a_val, deep)

\* What infer's Lambda arm returns once the annotation has checked:
\* Err(TypeMismatch { expected: Universe(Omega), found: a_val }).
InferLambdaResult(a_val, deep) == ErrTypeMismatch(ValueUniverse(LevelOmega), a_val, deep)

\* TypeChecker::check (mode "check") and TypeChecker::infer (mode "infer", ty
\* unused), the two mutually recursive judgments.
RECURSIVE Judge(_, _, _, _)
Judge(mode, c, term, ty) ==
    IF mode = "check"
    THEN
        CASE term.tag = "Lambda" /\ ty.tag = "Pi" ->
                LET extended_ctx == ContextExtend(c, LambdaDomain(c, term, ty))
                    b_ty == ApplyClosure(ty.closure, ValueNeutral(NeutralVar(Len(c.types))), 0)
                IN IF IsAbort(b_ty) THEN b_ty
                   ELSE Judge("check", extended_ctx, term.body, b_ty)
          [] term.tag = "PathLambda" /\ ty.tag = "PathType" ->
                LET at_zero == SubstituteInterval(term.body, IntervalZero)
                    at_one == SubstituteInterval(term.body, IntervalOne)
                    val_zero == Eval(c.env, at_zero, 0)
                    val_one == Eval(c.env, at_one, 0)
                IN IF IsAbort(val_zero) THEN val_zero
                   ELSE IF IsAbort(val_one) THEN val_one
                   ELSE LET r0 == CheckEqual(c, val_zero, ty.start, ty.a)
                        IN IF ~IsOk(r0) THEN r0
                           ELSE WithDeep(CheckEqual(c, val_one, ty.end, ty.a), r0.deep)
          [] OTHER ->
                LET inferred == Judge("infer", c, term, None)
                IN IF ~IsOk(inferred) THEN inferred
                   ELSE WithDeep(CheckEqual(c, inferred.val, ty, ValueUniverse(LevelOmega)),
                                 inferred.deep)
    ELSE
        CASE term.tag = "Var" ->
                LET r == ContextLookup(c, term.idx)
                IN IF r.tag = "Some" THEN OkVal(r.v, FALSE) ELSE ErrUnboundVariable(term.idx)
          [] term.tag = "Universe" -> OkVal(ValueUniverse(LevelSucc(term.level)), FALSE)
          [] term.tag = "Pi" ->
                LET a_val == Eval(c.env, term.a, 0)
                IN IF IsAbort(a_val) THEN a_val
                   ELSE LET a_level == InferUniverseLevel(c, a_val)
                        IN IF ~IsOk(a_level) THEN a_level
                           ELSE LET extended_ctx == ContextExtend(c, a_val)
                                    b_val == Eval(extended_ctx.env, term.b, 0)
                                IN IF IsAbort(b_val) THEN b_val
                                   ELSE LET b_level == InferUniverseLevel(extended_ctx, b_val)
                                        IN IF ~IsOk(b_level) THEN b_level
                                           ELSE OkVal(ValueUniverse(LevelMax(a_level.val, b_level.val)),
                                                      FALSE)
          [] term.tag = "App" ->
                LET fun_ty == Judge("infer", c, term.fun, None)
                IN IF ~IsOk(fun_ty) THEN fun_ty
                   ELSE IF fun_ty.val.tag = "Pi"
                   THEN LET chk == Judge("check", c, term.arg, fun_ty.val.a)
                        IN IF ~IsOk(chk) THEN WithDeep(chk, fun_ty.deep)
                           ELSE LET arg_val == Eval(c.env, term.arg, 0)
                                IN IF IsAbort(arg_val) THEN arg_val
                                   ELSE LET r == ApplyClosure(fun_ty.val.closure, arg_val, 0)
                                        IN IF IsAbort(r) THEN r
                                           ELSE OkVal(r, fun_ty.deep \/ chk.deep)
                   ELSE ErrNotAFunction(fun_ty.val, fun_ty.deep)
          [] term.tag = "PathType" ->
                LET a_val == Eval(c.env, term.a, 0)
                IN IF IsAbort(a_val) THEN a_val
                   ELSE LET a_level == InferUniverseLevel(c, a_val)
                        IN IF ~IsOk(a_level) THEN a_level
                           ELSE LET start_val == Eval(c.env, term.start, 0)
                                    end_val == Eval(c.env, term.end, 0)
                                IN IF IsAbort(start_val) THEN start_val
                                   ELSE IF IsAbort(end_val) THEN end_val
                                   ELSE LET cs == Judge("check", c, term.start, a_val)
                                        IN IF ~IsOk(cs) THEN cs
                                           ELSE LET ce == Judge("check", c, term.end, a_val)
                                                IN IF ~IsOk(ce) THEN WithDeep(ce, cs.deep)
                                                   ELSE OkVal(ValueUniverse(a_level.val),
                                                              cs.deep \/ ce.deep)
          [] term.tag = "PathApp" ->
                LET path_ty == Judge("infer", c, term.path, None)
                IN IF ~IsOk(path_ty) THEN path_ty
                   ELSE IF path_ty.val.tag = "PathType"
                   THEN OkVal(path_ty.val.a, path_ty.deep)
                   ELSE ErrNotAPath(path_ty.val, path_ty.deep)
          [] term.tag = "Lambda" ->
                LET a_val == Eval(c.env, term.ty, 0)
                IN IF IsAbort(a_val) THEN a_val
                   ELSE LET chk == Judge("check", c, term.ty, ValueUniverse(LevelOmega))
                        IN IF ~IsOk(chk) THEN chk
                           ELSE InferLambdaResult(a_val, chk.deep)
          [] OTHER -> Abort("todo: Other term inference cases")

\* TypeChecker::check
Check(c, term, ty) == Judge("check", c, term, ty)

\* TypeChecker::infer
Infer(c, term) == Judge("infer", c, term, None)

(***************************************************************************)
(* Inputs.                                                                 *)
(***************************************************************************)
Levels == {LevelZero, LevelOmega} \cup {LevelSuccOf(n) : n \in 0..MaxLevel}

U0 == TermUniverse(LevelZero)
U1 == TermUniverse(LevelSuccOf(1))
V0 == TermVar(0)
V1 == TermVar(1)
NVar(i) == ValueNeutral(NeutralVar(i))

\* (\x. x x)(\x. x x): evaluation never ends.
SelfApp == TermLambda(U0, TermApp(V0, V0))
OmegaTerm == TermApp(SelfApp, SelfApp)
\* (\w. \x. w w)(\w. \x. w w): evaluates to a lambda whose body evaluates to
\* the same lambda again, so quoting and comparing it recurse without end.
WTerm == TermLambda(U0, TermLambda(U0, TermApp(TermVar(1), TermVar(1))))
WWTerm == TermApp(WTerm, WTerm)
\* id = \A. \x. x  :  Pi(A : Type0). Pi(x : A). A      (test_identity_function)
IdTerm == TermLambda(U0, TermLambda(V0, V0))
IdType == TermPi(U0, TermPi(V0, V1))
\* refl = \A. \a. \i. a  :  Pi(A : Type l). Pi(a : A). Path A a a
ReflTerm(l) == TermLambda(TermUniverse(l), TermLambda(V0, TermPathLambda(V0)))
ReflType(l) == TermPi(TermUniverse(l), TermPi(V0, TermPathType(V1, V0, V0)))
\* two = \f. \x. f (f x)                               (test_confluence_property)
ChurchTwo == TermLambda(U0, TermLambda(U0, TermApp(V1, TermApp(V1, V0))))

\* The types extend is called with.
ExtendTypes ==
    {ValueUniverse(LevelZero), NVar(0),
     ValuePi(ValueUniverse(LevelZero), Closure(EnvironmentNew, V0))}

\* Terms built by one more constructor over the terms of S.
TermsOver(S) ==
    S \cup {TermLambda(U0, b) : b \in S}
      \cup {TermApp(f, a) : f, a \in S}
      \cup {TermPi(a, b) : a, b \in S}
      \cup {TermPathLambda(b) : b \in S}
      \cup {TermPathApp(p, IntervalOne) : p \in S}
TermAtoms == {V0, V1, U0, TermInterval(IntervalVar(0))}
SmallTerms == TermsOver(TermsOver(TermAtoms))

\* Binders in scope at most k: every Var index is below the number of
\* enclosing Lambda / Pi binders.
RECURSIVE Closed(_, _)
Closed(t, k) ==
    CASE t.tag = "Var" -> t.idx < k
      [] t.tag = "Lambda" -> Closed(t.ty, k) /\ Closed(t.body, k + 1)
      [] t.tag = "Pi" -> Closed(t.a, k) /\ Closed(t.b, k + 1)
      [] t.tag = "App" -> Closed(t.fun, k) /\ Closed(t.arg, k)
      [] t.tag = "PathType" -> Closed(t.a, k) /\ Closed(t.start, k) /\ Closed(t.end, k)
      [] t.tag = "PathLambda" -> Closed(t.body, k)
      [] t.tag = "PathApp" -> Closed(t.path, k)
      [] OTHER -> TRUE

\* Neutral terms: a variable under a spine of applications.
RECURSIVE IsNeutralTerm(_)
IsNeutralTerm(t) ==
    CASE t.tag = "Var" -> TRUE
      [] t.tag = "App" -> IsNeutralTerm(t.fun)
      [] t.tag = "PathApp" -> IsNeutralTerm(t.path)
      [] OTHER -> FALSE

\* Beta-normal forms: no redex anywhere, every application stuck on a variable.
RECURSIVE BetaNormal(_)
BetaNormal(t) ==
    CASE t.tag = "Lambda" -> BetaNormal(t.ty) /\ BetaNormal(t.body)
      [] t.tag = "Pi" -> BetaNormal(t.a) /\ BetaNormal(t.b)
      [] t.tag = "App" -> IsNeutralTerm(t.fun) /\ BetaNormal(t.fun) /\ BetaNormal(t.arg)
      [] t.tag = "PathType" -> BetaNormal(t.a) /\ BetaNormal(t.start) /\ BetaNormal(t.end)
      [] t.tag = "PathLambda" -> BetaNormal(t.body)
      [] t.tag = "PathApp" -> IsNeutralTerm(t.path) /\ BetaNormal(t.path)
      [] OTHER -> TRUE

\* The domain annotations of the identity applied in the beta law.
BetaDomains == {U0, U1, V0}
BetaArgs == {t \in SmallTerms : Closed(t, 0) /\ BetaNormal(t)}
           \cup {TermLambda(U0, TermLambda(U0, V1)), TermLambda(U1, V0), ChurchTwo, IdTerm}
NormalizeTerms ==
    SmallTerms \cup {TermApp(TermLambda(d, V0), t) : d \in BetaDomains, t \in BetaArgs}
               \cup {OmegaTerm, WWTerm, ChurchTwo, IdTerm, IdType}

(***************************************************************************)
(* Normalization session: a TypeChecker::new(), calls of normalize, of      *)
(* substitute_interval and of the Level operations.                        *)
(***************************************************************************)
\* TypeChecker::new
DefaultMaxDepth == 1000

NoCall == [op |-> "none"]

NormalizeEnvs == {EnvironmentNew, <<NVar(0)>>}

InitNorm ==
    /\ max_depth = DefaultMaxDepth
    /\ ctx = ContextNew
    /\ ctx2 = ContextNew
    /\ log = <<>>
    /\ log2 = <<>>
    /\ call = NoCall

\* normalize(env, t), and normalize again on what it returned.
NormalizeCall ==
    /\ call = NoCall
    /\ \E env \in NormalizeEnvs, t \in NormalizeTerms :
          LET res == Normalize(env, t)
          IN call' = [op |-> "normalize", env |-> env, term |-> t, res |-> res,
                      twice |-> IF IsAbort(res) THEN res ELSE Normalize(env, res)]
    /\ UNCHANGED <<max_depth, ctx, ctx2, log, log2>>

\* The host drops the result of the last call.
Return ==
    /\ call # NoCall
    /\ call' = NoCall
    /\ UNCHANGED <<max_depth, ctx, ctx2, log, log2>>

\* Terms with the interval variable in the places substitute_interval is to reach.
SubstituteTerms ==
    SmallTerms
      \cup {TermPathType(U0, TermInterval(IntervalVar(0)), TermInterval(IntervalVar(0))),
            TermPathApp(V0, IntervalVar(0)),
            TermPathApp(TermPathLambda(TermInterval(IntervalVar(0))), IntervalVar(0)),
            TermPathLambda(TermPathLambda(TermInterval(IntervalVar(1)))),
            TermTransport(U0, IntervalVar(0), IntervalOne, V0),
            TermTransport(TermInterval(IntervalVar(0)), IntervalZero, IntervalOne, V0),
            TermHcomp(U0, <<<<IntervalVar(0), IntervalZero, V0>>>>, V0),
            TermHcomp(U0, <<>>, TermInterval(IntervalVar(0))),
            TermInterval(IntervalZero), TermInterval(IntervalOne),
            TermInterval(IntervalVar(1)), TermLambda(U0, TermInterval(IntervalOne)),
            TermInterval(IntervalNeg(IntervalVar(0)))}

SubstituteCall ==
    /\ call = NoCall
    /\ \E t \in SubstituteTerms, e \in {IntervalZero, IntervalOne} :
          call' = [op |-> "substitute_interval", term |-> t, i |-> e,
                   res |-> SubstituteInterval(t, e)]
    /\ UNCHANGED <<max_depth, ctx, ctx2, log, log2>>

\* Level::max and Level::succ on a pair of levels, and the type infer gives
\* the universe of the first.
LevelCall ==
    /\ call = NoCall
    /\ \E a, b \in Levels :
          call' = [op |-> "level", a |-> a, b |-> b,
                   max |-> LevelMax(a, b), succ |-> LevelSucc(a),
                   infer |-> Infer(ContextNew, TermUniverse(a))]
    /\ UNCHANGED <<max_depth, ctx, ctx2, log, log2>>

NextNorm == NormalizeCall \/ SubstituteCall \/ LevelCall \/ Return

SpecNorm == InitNorm /\ [][NextNorm]_vars

\* The last call normalized the identity applied to a closed beta-normal term.
IsBetaCall ==
    /\ call.op = "normalize"
    /\ call.env = EnvironmentNew
    /\ call.term.tag = "App"
    /\ call.term.fun.tag = "Lambda"
    /\ call.term.fun.body = V0
    /\ Closed(call.term.arg, 0)
    /\ BetaNormal(call.term.arg)
\* C1: beta law.  normalize(Environment::new(), App(Lambda(d, Var(0)), t))
\* returns exactly t for every closed beta-normal t and every annotation d.
C1_BetaLaw == IsBetaCall => call.res = call.term.arg

\* A call ended by the call stack running out.
StackExhausted(r) == IsAbort(r) /\ r.why = "stack overflow"

\* C14: normalize (eval, then quote) stops with a structured failure on every
\* input, the divergent self-application
\* App(Lambda(_, App(Var(0),Var(0))), Lambda(_, App(Var(0),Var(0)))) included:
\* it never recurses until the call stack runs out.
C14_DepthBoundedEval == call.op = "normalize" => ~StackExhausted(call.res)

\* The interval variable k occurs in the interval point p.
RECURSIVE PointHasVar(_, _)
PointHasVar(p, k) ==
    CASE p.tag = "Var" -> p.idx = k
      [] p.tag \in {"Meet", "Join"} -> PointHasVar(p.l, k) \/ PointHasVar(p.r, k)
      [] p.tag = "Neg" -> PointHasVar(p.i, k)
      [] OTHER -> FALSE

\* The interval variable k occurs in the term t (a PathLambda binds one more
\* interval variable, so k is k + 1 under it).
RECURSIVE HasIntervalVar(_, _)
HasIntervalVar(t, k) ==
    CASE t.tag = "Interval" -> PointHasVar(t.i, k)
      [] t.tag = "Lambda" -> HasIntervalVar(t.ty, k) \/ HasIntervalVar(t.body, k)
      [] t.tag = "App" -> HasIntervalVar(t.fun, k) \/ HasIntervalVar(t.arg, k)
      [] t.tag = "Pi" -> HasIntervalVar(t.a, k) \/ HasIntervalVar(t.b, k)
      [] t.tag = "PathType" ->
            HasIntervalVar(t.a, k) \/ HasIntervalVar(t.start, k) \/ HasIntervalVar(t.end, k)
      [] t.tag = "PathLambda" -> HasIntervalVar(t.body, k + 1)
      [] t.tag = "PathApp" -> HasIntervalVar(t.path, k) \/ PointHasVar(t.i, k)
      [] t.tag = "Transport" ->
            \/ HasIntervalVar(t.ty, k) \/ HasIntervalVar(t.t, k)
            \/ PointHasVar(t.i, k) \/ PointHasVar(t.j, k)
      [] t.tag = "Hcomp" ->
            \/ HasIntervalVar(t.ty, k) \/ HasIntervalVar(t.base, k)
            \/ \E n \in 1..Len(t.sys) :
                  \/ PointHasVar(t.sys[n][1], k) \/ PointHasVar(t.sys[n][2], k)
                  \/ HasIntervalVar(t.sys[n][3], k)
      [] OTHER -> FALSE

\* C12: substitute_interval(t, e), e an endpoint, leaves no occurrence of the
\* bound interval variable in its result, wherever the variable occurs in t:
\* inside App, Pi, PathType endpoints, PathApp interval arguments, nested
\* PathLambda, Transport and Hcomp.
C12_SubstitutionTotal ==
    call.op = "substitute_interval" => ~HasIntervalVar(call.res, 0)

(***************************************************************************)
(* Checking session: a TypeChecker with some max_depth, a Context grown by *)
(* extend, and calls of check, infer, values_equal and lookup on it.       *)
(***************************************************************************)
\* Terms evaluated in the context's environment to get the Values handed in.
ValueTerms ==
    {V0, V1, U0, U1, TermInterval(IntervalZero), TermInterval(IntervalOne),
     TermLambda(U0, V0), TermLambda(U0, TermLambda(U0, V0)), WWTerm,
     TermPi(U0, V0), IdType, TermLambda(U0, OmegaTerm), TermApp(V0, U0),
     TermPathApp(V0, IntervalZero), TermPathLambda(V0), TermPathType(U0, V0, V0)}
Values(c) == {Eval(c.env, t, 0) : t \in ValueTerms}

EndpointTerms ==
    {V0, U0, TermInterval(IntervalZero), TermInterval(IntervalOne), TermLambda(U0, V0), WWTerm}
Endpoints(c) == {Eval(c.env, t, 0) : t \in EndpointTerms}

PathBodies ==
    {V0, U0, TermInterval(IntervalVar(0)), TermLambda(U0, V0), WWTerm,
     TermApp(U0, U0), TermLambda(U0, TermInterval(IntervalVar(0))),
     TermInterval(IntervalOne)}
PathTypes(c) ==
    {ValuePathType(ValueUniverse(LevelZero), a, b) : a, b \in Endpoints(c)}

\* The two sides of each law of the De Morgan algebra, as interval points.
IntervalAtoms == {IntervalZero, IntervalOne, IntervalVar(0)}
IntervalLaws ==
    {<<IntervalNeg(IntervalMeet(i, j)), IntervalJoin(IntervalNeg(i), IntervalNeg(j))>> :
        i, j \in IntervalAtoms}
      \cup {<<IntervalNeg(IntervalJoin(i, j)), IntervalMeet(IntervalNeg(i), IntervalNeg(j))>> :
              i, j \in IntervalAtoms}
      \cup {<<IntervalNeg(IntervalNeg(i)), i>> : i \in IntervalAtoms}
      \cup {<<IntervalMeet(IntervalZero, i), IntervalZero>> : i \in IntervalAtoms}
      \cup {<<IntervalJoin(IntervalOne, i), IntervalOne>> : i \in IntervalAtoms}
\* The same pairs as Value::Interval and as the argument of a Neutral::PathApp.
IntervalLawPairs ==
    {<<ValueInterval(p[1]), ValueInterval(p[2])>> : p \in IntervalLaws}
      \cup {<<ValueNeutral(NeutralPathApp(NeutralVar(0), p[1])),
              ValueNeutral(NeutralPathApp(NeutralVar(0), p[2]))>> : p \in IntervalLaws}

LambdaTerms ==
    {TermLambda(d, b) : d \in {U0, V0},
                        b \in {V0, V1, U0, TermLambda(V0, V0), TermPathLambda(V0)}}
      \cup {IdTerm} \cup {ReflTerm(l) : l \in Levels}
PiTerms ==
    {TermPi(U0, V0), TermPi(U0, U0), TermPi(V0, V1), IdType, TermPi(U0, OmegaTerm)}
      \cup {ReflType(l) : l \in Levels}
PiValues(c) == {Eval(c.env, t, 0) : t \in PiTerms}

InferTerms ==
    {TermVar(i) : i \in 0..MaxIdx} \cup {TermUniverse(l) : l \in Levels}
      \cup {TermPi(U0, V0), TermPi(V0, V1), TermPi(U0, U1), TermPi(V0, U0), IdType,
            TermPi(U0, U0), TermPi(TermUniverse(LevelOmega), TermUniverse(LevelOmega)),
            ReflType(LevelZero),
            TermApp(V0, V0), TermApp(V0, U0), TermApp(V1, V0), TermApp(U0, U0),
            TermApp(V0, V1), TermApp(V0, TermApp(U0, U0)), TermApp(V1, TermApp(U0, U0)),
            TermPathType(U0, V0, V0), TermPathType(V0, V0, V0), TermPathType(V1, V0, V0),
            TermPathApp(V0, IntervalZero), TermPathApp(U0, IntervalOne),
            TermLambda(U0, V0), TermLambda(V0, V0), TermPathLambda(V0),
            TermInterval(IntervalZero),
            TermTransport(U0, IntervalZero, IntervalOne, V0), TermHcomp(U0, <<>>, V0)}

UniverseValues == {ValueUniverse(l) : l \in Levels}

CheckInputs(c) ==
    {<<TermPathLambda(b), ty>> : b \in PathBodies, ty \in PathTypes(c)}
      \cup (LambdaTerms \X PiValues(c))
      \cup (InferTerms \X Values(c))
      \cup (InferTerms \X UniverseValues)

Init ==
    /\ max_depth \in 0..MaxMaxDepth
    /\ ctx = ContextNew
    /\ ctx2 = ContextNew
    /\ log = <<>>
    /\ log2 = <<>>
    /\ call = NoCall

\* ctx2 = ctx.extend(ty)
Extend ==
    \E ty \in ExtendTypes :
        /\ Len(ctx.types) < MaxCtx
        /\ LET r == ContextExtendCall(ctx, ty)
           IN /\ ctx' = r.self
              /\ ctx2' = r.ret
        /\ log2' = Append(log, ty)
        /\ UNCHANGED <<max_depth, log, call>>

\* ctx2 = ctx2.extend(ty): a further extend of the extended context
ExtendFurther ==
    \E ty \in ExtendTypes :
        /\ Len(ctx2.types) > Len(ctx.types)
        /\ Len(ctx2.types) < MaxCtx
        /\ ctx2' = ContextExtendCall(ctx2, ty).ret
        /\ log2' = Append(log2, ty)
        /\ UNCHANGED <<max_depth, ctx, log, call>>

\* The host goes on with the extended context.
Enter ==
    /\ ctx2 # ctx
    /\ ctx' = ctx2
    /\ log' = log2
    /\ call' = NoCall
    /\ UNCHANGED <<max_depth, ctx2, log2>>

CheckCall ==
    /\ call = NoCall
    /\ \E in \in CheckInputs(ctx) :
          call' = [op |-> "check", c |-> ctx, term |-> in[1], ty |-> in[2],
                   res |-> Check(ctx, in[1], in[2])]
    /\ UNCHANGED <<max_depth, ctx, ctx2, log, log2>>

InferCall ==
    /\ call = NoCall
    /\ \E t \in InferTerms \cup LambdaTerms :
          call' = [op |-> "infer", c |-> ctx, term |-> t, res |-> Infer(ctx, t)]
    /\ UNCHANGED <<max_depth, ctx, ctx2, log, log2>>

ValuesEqualCall ==
    /\ call = NoCall
    /\ \E p \in (Values(ctx) \X Values(ctx)) \cup IntervalLawPairs :
          call' = [op |-> "values_equal", level |-> Len(ctx.types), v1 |-> p[1], v2 |-> p[2],
                   res |-> ValuesEqual(Len(ctx.types), p[1], p[2], 0)]
    /\ UNCHANGED <<max_depth, ctx, ctx2, log, log2>>

LookupCall ==
    /\ call = NoCall
    /\ \E i \in 0..MaxIdx :
          call' = [op |-> "lookup", idx |-> i,
                   env |-> EnvironmentLookup(ctx.env, i),
                   types |-> ContextLookup(ctx, i),
                   infer |-> Infer(ctx, TermVar(i))]
    /\ UNCHANGED <<max_depth, ctx, ctx2, log, log2>>

Next ==
    \/ Extend
    \/ ExtendFurther
    \/ Enter
    \/ Return
    \/ CheckCall
    \/ InferCall
    \/ ValuesEqualCall
    \/ LookupCall

Spec == Init /\ [][Next]_vars

(***************************************************************************)
(* Properties of the checking session.                                     *)
(***************************************************************************)
Returned(r) == ~IsAbort(r)
IsTypeMismatch(r, expected, found) ==
    /\ IsErr(r)
    /\ r.err = "TypeMismatch"
    /\ r.expected = expected
    /\ r.found = found
IsUnificationFailure(r) == IsErr(r) /\ r.err = "UnificationFailure"

\* The last call checked a PathLambda against a PathType.
IsPathCheck ==
    /\ call.op = "check"
    /\ call.term.tag = "PathLambda"
    /\ call.ty.tag = "PathType"
\* The body at i = 0 and at i = 1, evaluated, and each compared with its endpoint.
ValZero == Eval(call.c.env, SubstituteInterval(call.term.body, IntervalZero), 0)
ValOne == Eval(call.c.env, SubstituteInterval(call.term.body, IntervalOne), 0)
EqZero == ValuesEqual(Len(call.c.types), ValZero, call.ty.start, 0)
EqOne == ValuesEqual(Len(call.c.types), ValOne, call.ty.end, 0)
Convertible(e) == IsOk(e) /\ e.val
NotConvertible(e) == IsOk(e) /\ ~e.val
PathCheckReturns ==
    /\ IsPathCheck
    /\ Returned(ValZero)
    /\ Returned(ValOne)
    /\ Returned(EqZero)
    /\ Returned(EqOne)

\* C2 as stated: check(ctx, PathLambda(body), PathType(A, a, b)) is Ok exactly
\* when both endpoints are convertible, and a TypeMismatch whenever either
\* endpoint is not convertible.
C2_PathBoundaryAsStated ==
    PathCheckReturns =>
        /\ IsOk(call.res) <=> (Convertible(EqZero) /\ Convertible(EqOne))
        /\ (NotConvertible(EqZero) \/ NotConvertible(EqOne)) =>
              (IsErr(call.res) /\ call.res.err = "TypeMismatch")

\* C2, amended: check(ctx, PathLambda(body), PathType(A, a, b)) is Ok exactly
\* when both endpoints are convertible; it is the TypeMismatch of the zero
\* endpoint when that one is not convertible, the TypeMismatch of the one
\* endpoint when the zero endpoint is convertible and the one endpoint is not,
\* and UnificationFailure when the first comparison that does not say
\* "convertible" exceeded max_depth; it is never Ok in those cases.
C2_PathBoundary ==
    PathCheckReturns =>
        /\ IsOk(call.res) <=> (Convertible(EqZero) /\ Convertible(EqOne))
        /\ NotConvertible(EqZero) => IsTypeMismatch(call.res, call.ty.start, ValZero)
        /\ (Convertible(EqZero) /\ NotConvertible(EqOne)) =>
              IsTypeMismatch(call.res, call.ty.end, ValOne)
        /\ IsErr(EqZero) => IsUnificationFailure(call.res)
        /\ (Convertible(EqZero) /\ IsErr(EqOne)) => IsUnificationFailure(call.res)

\* The zero endpoint's comparison exceeded max_depth, the one endpoint is not
\* convertible, and check returned UnificationFailure.
C2_Witness ==
    /\ PathCheckReturns
    /\ IsErr(EqZero)
    /\ NotConvertible(EqOne)
    /\ IsUnificationFailure(call.res)

\* C3: infer(ctx, Universe(l)) returns Ok(Universe(l.succ())) in every context;
\* for l = Zero that is Universe(Succ(1)).
C3_UniverseSuccessor ==
    (call.op = "infer" /\ call.term.tag = "Universe") =>
        /\ IsOk(call.res)
        /\ call.res.val = ValueUniverse(LevelSucc(call.term.level))
        /\ call.term.level = LevelZero => call.res.val = ValueUniverse(LevelSuccOf(1))
        /\ (call.term.level.k = "Succ") =>
              call.res.val = ValueUniverse(LevelSuccOf(call.term.level.n + 1))

C3_Witness ==
    /\ call.op = "infer"
    /\ call.term = TermUniverse(LevelZero)
    /\ Len(call.c.types) > 0
    /\ IsOk(call.res)
    /\ call.res.val = ValueUniverse(LevelSuccOf(1))

\* The last call checked refl at level l against its type, in Context::new().
IsReflCheck(l) ==
    /\ call.op = "check"
    /\ call.c = ContextNew
    /\ call.term = ReflTerm(l)
    /\ call.ty = Eval(EnvironmentNew, ReflType(l), 0)
\* C4: in the empty context \A. \a. \i. a checks against
\* Pi(A : Type l). Pi(a : A). Path A a a, for every level l.
C4_PathReflexivity == \A l \in Levels : IsReflCheck(l) => call.res = OkUnit(FALSE)

C4_Witness == IsReflCheck(LevelSuccOf(MaxLevel)) /\ IsOk(call.res)

\* The last call checked a Lambda against a Pi.
IsLambdaPiCheck ==
    /\ call.op = "check"
    /\ call.term.tag = "Lambda"
    /\ call.ty.tag = "Pi"
FreshVar == NVar(Len(call.c.types))
IsIdCheck ==
    /\ call.op = "check"
    /\ call.c = ContextNew
    /\ call.term = IdTerm
    /\ call.ty = Eval(EnvironmentNew, IdType, 0)
\* C5: check(ctx, Lambda(_, body), Pi(A, cl)) is check(ctx.extend(A), body, B)
\* with B = cl applied to Neutral(Var(ctx.types.len())), which is the value
\* ctx.extend(A) has at index 0 of its environment; and \A. \x. x checks
\* against Pi(A : Type0). Pi(x : A). A in the empty context.
C5_LambdaPiRule ==
    /\ IsLambdaPiCheck =>
          LET extended == ContextExtend(call.c, call.ty.a)
              b_ty == ApplyClosure(call.ty.closure, FreshVar, 0)
          IN /\ EnvironmentLookup(extended.env, 0) = Some(FreshVar)
             /\ ContextLookup(extended, 0) = Some(call.ty.a)
             /\ IF IsAbort(b_ty) THEN call.res = b_ty
                ELSE call.res = Check(extended, call.term.body, b_ty)
    /\ IsIdCheck => call.res = OkUnit(FALSE)

C5_Witness == IsIdCheck /\ IsOk(call.res)

\* C7: a values_equal, check or infer call in which some values_equal call
\* had depth > max_depth returns Err(UnificationFailure): never Ok, never a
\* TypeMismatch.
C7_DepthGuard ==
    (call.op \in {"values_equal", "check", "infer"} /\ Returned(call.res) /\ call.res.deep)
        => IsUnificationFailure(call.res)

\* (\w. \x. w w)(\w. \x. w w) against itself: the comparison opens the same
\* lambda again and again until depth exceeds max_depth.
C7_Witness ==
    /\ call.op = "check"
    /\ max_depth = MaxMaxDepth
    /\ call.term = TermPathLambda(WWTerm)
    /\ call.ty.start = Eval(call.c.env, WWTerm, 0)
    /\ call.res = ErrUnificationFailure(TRUE)

\* C8: values_equal returns, with Ok(bool) or Err(UnificationFailure), for
\* every pair of Values and every max_depth.
C8_ConversionTotal ==
    call.op = "values_equal" => (IsOk(call.res) \/ IsUnificationFailure(call.res))

\* C9: extend leaves its receiver as it was: while ctx is extended (once, and
\* again), ctx is the context the earlier check or infer was made in, and
\* that check or infer made again on ctx returns what it returned before.
C9_ContextPurity ==
    /\ call.op = "check" =>
          /\ ctx = call.c
          /\ Check(ctx, call.term, call.ty) = call.res
    /\ call.op = "infer" =>
          /\ ctx = call.c
          /\ Infer(ctx, call.term) = call.res

C9_Witness ==
    /\ call.op = "check"
    /\ IsOk(call.res)
    /\ Len(ctx2.types) = Len(ctx.types) + 2
    /\ ctx = call.c

\* C10: after n extends from new(), lookup(i) is the element appended at
\* position n-1-i when i < n and None when i >= n, in the environment and in
\* the context; infer(ctx, Var(i)) is that type, or UnboundVariable(i).
C10_DeBruijnIndexing ==
    call.op = "lookup" =>
        LET n == Len(log)
            i == call.idx
        IN /\ Len(ctx.types) = n
           /\ Len(ctx.env) = n
           /\ i < n =>
                /\ call.types = Some(log[(n - 1 - i) + 1])
                /\ call.env = Some(NVar(n - 1 - i))
                /\ call.infer = OkVal(log[(n - 1 - i) + 1], FALSE)
           /\ i >= n =>
                /\ call.types = None
                /\ call.env = None
                /\ call.infer = ErrUnboundVariable(i)

C10_Witness ==
    /\ call.op = "lookup"
    /\ Len(log) = 2
    /\ log[1] # log[2]
    /\ call.idx = 1
    /\ call.types = Some(log[1])

\* A call ended by a panic! or a todo!.
Faulted(r) == IsAbort(r) /\ r.why # "stack overflow"

\* C11: check and infer return a value or an Err(TypeError) for every context
\* and every Term, Interval, Transport, Hcomp, a PathLambda against a non-path
\* type and an application whose head is a Universe included: none of them
\* ends in a panic! or a todo!.
C11_NoUncaughtFaults == call.op \in {"check", "infer"} => ~Faulted(call.res)

\* C13: the conversion checker takes the two sides of each De Morgan law for
\* equal, as Value::Interval and as Neutral::PathApp arguments:
\* Neg(Meet(i,j)) and Join(Neg(i),Neg(j)), Neg(Join(i,j)) and
\* Meet(Neg(i),Neg(j)), Neg(Neg(i)) and i, Meet(Zero,i) and Zero,
\* Join(One,i) and One, for i, j among Zero, One, Var(k).
C13_DeMorganLaws ==
    (call.op = "values_equal" /\ <<call.v1, call.v2>> \in IntervalLawPairs)
        => Convertible(call.res)

\* The last call inferred the type of a Pi.
IsPiInfer == call.op = "infer" /\ call.term.tag = "Pi"
IsUniverseType(r) == IsOk(r) /\ r.val.tag = "Universe"
\* The type of the domain in the context, the domain's value, and the type of
\* the codomain in the context extended with that value.
DomainType == Infer(call.c, call.term.a)
DomainValue == Eval(call.c.env, call.term.a, 0)
CodomainType == Infer(ContextExtend(call.c, DomainValue), call.term.b)

\* C15: when a has type Universe(la) in ctx and b has type Universe(lb) in ctx
\* extended with eval(a), infer(ctx, Pi(a, b)) returns Ok(Universe(la.max(lb))).
C15_PiFormation ==
    (/\ IsPiInfer
     /\ IsUniverseType(DomainType)
     /\ Returned(DomainValue)
     /\ IsUniverseType(CodomainType))
        => /\ IsOk(call.res)
           /\ call.res.val =
                 ValueUniverse(LevelMax(DomainType.val.level, CodomainType.val.level))

\* The last call inferred the type of a PathType.
IsPathTypeInfer == call.op = "infer" /\ call.term.tag = "PathType"
\* The type of A in the context, and A's value.
CarrierType == Infer(call.c, call.term.a)
CarrierValue == Eval(call.c.env, call.term.a, 0)
StartCheck == Check(call.c, call.term.start, CarrierValue)
EndCheck == Check(call.c, call.term.end, CarrierValue)

\* C16: infer(ctx, PathType(A, s, e)) returns Ok(Universe(l)) only if A's
\* universe level is l (A has type Universe(l) in ctx) and both endpoints
\* check against eval(A); and when A evaluates to a universe, a failure of
\* either endpoint check is returned as that Err.
C16_PathTypeFormation ==
    (IsPathTypeInfer /\ Returned(call.res) /\ Returned(CarrierValue)) =>
        /\ IsOk(call.res) =>
              /\ IsUniverseType(CarrierType)
              /\ call.res.val = ValueUniverse(CarrierType.val.level)
              /\ IsOk(StartCheck)
              /\ IsOk(EndCheck)
        /\ (CarrierValue.tag = "Universe" /\ IsErr(StartCheck)) => call.res = StartCheck
        /\ (CarrierValue.tag = "Universe" /\ IsOk(StartCheck) /\ IsErr(EndCheck)) =>
              call.res = WithDeep(EndCheck, StartCheck.deep)

\* The last call inferred the type of an application.
IsAppInfer == call.op = "infer" /\ call.term.tag = "App"
\* The type of the head, the check of the argument against its domain, the
\* argument's value and the codomain closure applied to it.
FunType == Infer(call.c, call.term.fun)
ArgCheck == Check(call.c, call.term.arg, FunType.val.a)
ArgValue == Eval(call.c.env, call.term.arg, 0)
ResultType == ApplyClosure(FunType.val.closure, ArgValue, 0)

\* C17: with infer(ctx, f) = Ok(T), infer(ctx, App(f, a)) is
\* Err(NotAFunction(T)) when T is not a Pi; when T = Pi(A, cl) it is the error
\* of check(ctx, a, A) when that check fails (a is not evaluated then), and
\* otherwise Ok(cl applied to eval(ctx.env, a)).
C17_AppInference ==
    (IsAppInfer /\ IsOk(FunType)) =>
        /\ FunType.val.tag # "Pi" =>
              /\ IsErr(call.res)
              /\ call.res.err = "NotAFunction"
              /\ call.res.v = FunType.val
        /\ FunType.val.tag = "Pi" =>
              /\ IsErr(ArgCheck) => call.res = WithDeep(ArgCheck, FunType.deep)
              /\ (IsOk(ArgCheck) /\ Returned(ArgValue) /\ Returned(ResultType)) =>
                    /\ IsOk(call.res)
                    /\ call.res.val = ResultType

\* f : Pi(A : Type0). A applied to a variable of type Type0.
C17_Witness ==
    /\ IsAppInfer
    /\ IsOk(FunType)
    /\ FunType.val.tag = "Pi"
    /\ IsOk(ArgCheck)
    /\ IsOk(call.res)
    /\ call.res.val = ResultType

\* The last call inferred the type of a Lambda.
IsLambdaInfer == call.op = "infer" /\ call.term.tag = "Lambda"
AnnotationValue == Eval(call.c.env, call.term.ty, 0)
AnnotationCheck == Check(call.c, call.term.ty, ValueUniverse(LevelOmega))

\* C18: infer(ctx, Lambda(a, b)) never returns Ok (once the annotation has
\* checked it is a TypeMismatch expecting Universe(Omega)), and
\* check(ctx, Lambda(a, b), ty) never returns Ok when ty is not a Pi value.
C18_LambdaNeedsPi ==
    /\ IsLambdaInfer =>
          /\ ~IsOk(call.res)
          /\ (Returned(AnnotationValue) /\ IsOk(AnnotationCheck)) =>
                IsTypeMismatch(call.res, ValueUniverse(LevelOmega), AnnotationValue)
    /\ (call.op = "check" /\ call.term.tag = "Lambda" /\ call.ty.tag # "Pi") =>
          ~IsOk(call.res)

\* A Lambda whose annotation Universe(Omega) checks against Universe(Omega).
C18_Witness ==
    /\ IsLambdaInfer
    /\ IsOk(AnnotationCheck)
    /\ IsTypeMismatch(call.res, ValueUniverse(LevelOmega), AnnotationValue)

\* Two neutrals match constructor by constructor: equal Var indices, matching
\* App heads with convertible arguments, matching PathApp paths with equal
\* interval points.
RECURSIVE SpinesMatch(_, _, _)
SpinesMatch(level, n1, n2) ==
    CASE n1.tag = "Var" /\ n2.tag = "Var" -> n1.idx = n2.idx
      [] n1.tag = "App" /\ n2.tag = "App" ->
            /\ SpinesMatch(level, n1.fun, n2.fun)
            /\ Convertible(ValuesEqual(level, n1.arg, n2.arg, 0))
      [] n1.tag = "PathApp" /\ n2.tag = "PathApp" ->
            SpinesMatch(level, n1.path, n2.path) /\ n1.i = n2.i
      [] OTHER -> FALSE

\* C19: values_equal(Neutral(n1), Neutral(n2)) is true exactly when the two
\* spines match constructor by constructor, PathApp included; in particular
\* Neutral(PathApp(n, i)) is convertible to itself.
C19_NeutralConversion ==
    (/\ call.op = "values_equal"
     /\ call.v1.tag = "Neutral"
     /\ call.v2.tag = "Neutral"
     /\ IsOk(call.res))
        => (call.res.val <=> SpinesMatch(call.level, call.v1.n, call.v2.n))

\* The normal forms of the two values compared by the last values_equal call.
QuoteOne == Quote(call.level, call.v1, 0)
QuoteTwo == Quote(call.level, call.v2, 0)

\* C20: when the comparison stays within max_depth, values_equal(n, v1, v2, 0)
\* is Ok(true) exactly when quote(n, v1) and quote(n, v2) are the same Term.
C20_ConversionIsQuoteEquality ==
    (/\ call.op = "values_equal"
     /\ IsOk(call.res)
     /\ Returned(QuoteOne)
     /\ Returned(QuoteTwo))
        => (call.res.val <=> QuoteOne = QuoteTwo)

\* The last call checked a term against a universe.
IsUniverseCheck == call.op = "check" /\ call.ty.tag = "Universe"
InferredType == Infer(call.c, call.term)

InLockstep(c) ==
    /\ Len(c.types) = Len(c.env)
    /\ \A k \in 0..(Len(c.env) - 1) : c.env[k + 1] = NVar(k)
    /\ \A i \in 0..(Len(c.env) - 1) : Eval(c.env, TermVar(i), 0) = NVar(Len(c.env) - 1 - i)

\* C22: in every Context built from Context::new() by extend calls,
\* types.len() == env.values.len(), env.values[k] is Neutral(Var(k)), and
\* Var(i) evaluates in ctx.env to Neutral(Var(n-1-i)).
C22_ContextLockstep == InLockstep(ctx) /\ InLockstep(ctx2)

\* Two extends: Var(0) is the variable created at position 1, Var(1) at 0.
C22_Witness ==
    /\ Len(ctx2.types) = 2
    /\ Len(ctx2.env) = 2
    /\ Eval(ctx2.env, V0, 0) = NVar(1)
    /\ Eval(ctx2.env, V1, 0) = NVar(0)

\* l2 is strictly greater than l1 in the derived order.
LevelLt(l1, l2) == LevelLe(l1, l2) /\ l1 # l2

\* C23: Level::max(a, b) is the greater of a and b in the derived order
\* Zero < Succ(n) < Omega, Level::succ(l) is strictly greater than l for every
\* level l, and no Universe(l) is inferred to have the type Universe(l).
C23_LevelOrder ==
    call.op = "level" =>
        /\ call.max = (IF LevelLe(call.a, call.b) THEN call.b ELSE call.a)
        /\ LevelLt(call.a, call.succ)
        /\ call.infer # OkVal(ValueUniverse(call.a), FALSE)

\* C24: values_equal(n, v, v, 0) returns Ok(true) for every Value v (Neutral,
\* Universe, Lambda, Pi, PathType, PathLambda, Interval) whose comparison
\* stays within max_depth.
C24_ConversionReflexive ==
    (call.op = "values_equal" /\ call.v1 = call.v2 /\ IsOk(call.res)) => call.res.val

\* \x. \y. x, with the placeholder quote writes for a domain.
ConstTerm == TermLambda(U0, TermLambda(U0, V1))

\* C25: for every closed term t on which normalize returns,
\* normalize(env, normalize(env, t)) == normalize(env, t), and a bound
\* variable is quoted back to the index of its own binder: \x. \y. x
\* normalizes to \x. \y. x.
C25_NormalizeIdempotent ==
    (/\ call.op = "normalize"
     /\ call.env = EnvironmentNew
     /\ Closed(call.term, 0)
     /\ Returned(call.res))
        => /\ call.twice = call.res
           /\ call.term = ConstTerm => call.res = ConstTerm

\* The type infer gives the body of the PathLambda last checked.
BodyType == Infer(call.c, call.term.body)

\* C26: when check(ctx, PathLambda(body), PathType(A, a, b)) returns Ok,
\* infer(ctx, body) succeeds and its result is convertible to A.
C26_PathBodyTyped ==
    (IsPathCheck /\ IsOk(call.res)) =>
        /\ IsOk(BodyType)
        /\ Convertible(ValuesEqual(Len(call.c.types), BodyType.val, call.ty.a, 0))

\* Domain annotations: well-formed, unbound, one whose evaluation panics and
\* one whose evaluation does not end.
AnnotationTerms == {U0, U1, V0, TermApp(U0, U0), OmegaTerm}

\* C27: check(ctx, Lambda(d1, body), P) and check(ctx, Lambda(d2, body), P)
\* return the same outcome for every Pi value P and any two annotations d1,
\* d2: the annotation is neither evaluated nor compared with P's domain.
C27_AnnotationIrrelevant ==
    IsLambdaPiCheck =>
        \A d \in AnnotationTerms :
            Check(call.c, TermLambda(d, call.term.body), call.ty) = call.res

\* \x : Var(0). x accepted at Pi(_ : Type0). Type0, whose domain is not Var(0).
C27_Witness ==
    /\ IsLambdaPiCheck
    /\ call.term.ty = V0
    /\ call.ty.a = ValueUniverse(LevelZero)
    /\ IsOk(call.res)
    /\ Check(call.c, TermLambda(OmegaTerm, call.term.body), call.ty) = call.res

\* C28: substitute_interval(t, e) changes nothing but the bound interval
\* variable: a term in which the variable does not occur (Interval(Zero),
\* Interval(One), an Interval of other variables only) comes back unchanged.
C28_SubstitutionLocal ==
    (call.op = "substitute_interval" /\ ~HasIntervalVar(call.term, 0))
        => call.res = call.term

\* The type the context of the last call gives Var(i) is a universe.
HasUniverseType(i) ==
    /\ ContextLookup(call.c, i).tag = "Some"
    /\ ContextLookup(call.c, i).v.tag = "Universe"
\* Var(0) : Var(1) and Var(1) : Universe(l): the context ctx.extend(eval Var(0)).
HasTypeVariable ==
    /\ Len(call.c.types) >= 2
    /\ HasUniverseType(1)
    /\ ContextLookup(call.c, 0) = Some(Eval(call.c.env, V1, 0))

\* C29: where Var(0) : Universe(l), infer(ctx, Pi(Var(0), Var(1))) returns
\* Ok(Universe(_)); where Var(1) : Universe(l) and Var(0) : Var(1),
\* infer(ctx, PathType(Var(1), Var(0), Var(0))) returns Ok(Universe(_)); and
\* infer accepts Pi(A:Type0). Pi(x:A). A and Pi(A:Type0). Pi(a:A). Path A a a
\* in the empty context.
C29_TypeVariablesAccepted ==
    call.op = "infer" =>
        /\ (call.term = TermPi(V0, V1) /\ HasUniverseType(0)) => IsUniverseType(call.res)
        /\ (call.term = TermPathType(V1, V0, V0) /\ HasTypeVariable) =>
              IsUniverseType(call.res)
        /\ (call.c = ContextNew /\ call.term \in {IdType, ReflType(LevelZero)}) =>
              IsUniverseType(call.res)

(***************************************************************************)
(* Collaborative editing (src/src/collaborative.rs): Operation,            *)
(* OperationalTransform::transform and OperationalTransform::apply.  A     *)
(* String is the sequence of its characters, a character its code.         *)
(***************************************************************************)
OperationInsert(pos, text) == [tag |-> "Insert", pos |-> pos, text |-> text]
OperationDelete(pos, len) == [tag |-> "Delete", pos |-> pos, len |-> len]
OperationReplace(pos, len, text) == [tag |-> "Replace", pos |-> pos, len |-> len, text |-> text]

\* The order of String: lexicographic, a proper prefix first.
RECURSIVE StringLess(_, _)
StringLess(s, t) ==
    IF t = <<>> THEN FALSE
    ELSE IF s = <<>> THEN TRUE
    ELSE IF Head(s) # Head(t) THEN Head(s) < Head(t)
    ELSE StringLess(Tail(s), Tail(t))

Min(x, y) == IF x <= y THEN x ELSE y
Max(x, y) == IF x >= y THEN x ELSE y

\* OperationalTransform::transform(a, b): the pair (a', b') as a record.
RECURSIVE Transform(_, _)
Transform(a, b) ==
    CASE a.tag = "Insert" /\ b.tag = "Insert" ->
            IF a.pos < b.pos
            THEN [a |-> a, b |-> OperationInsert(b.pos + Len(a.text), b.text)]
            ELSE IF a.pos > b.pos
            THEN [a |-> OperationInsert(a.pos + Len(b.text), a.text), b |-> b]
            ELSE IF StringLess(a.text, b.text)
            THEN [a |-> a, b |-> OperationInsert(b.pos + Len(a.text), b.text)]
            ELSE [a |-> OperationInsert(a.pos + Len(b.text), a.text), b |-> b]
      [] a.tag = "Delete" /\ b.tag = "Delete" ->
            IF a.pos + a.len <= b.pos
            THEN [a |-> a, b |-> OperationDelete(b.pos - a.len, b.len)]
            ELSE IF b.pos + b.len <= a.pos
            THEN [a |-> OperationDelete(a.pos - b.len, a.len), b |-> b]
            ELSE LET start == Min(a.pos, b.pos)
                     end == Max(a.pos + a.len, b.pos + b.len)
                     total_len == end - start
                 IN [a |-> OperationDelete(start, total_len - b.len),
                     b |-> OperationDelete(start, total_len - a.len)]
      [] a.tag = "Insert" /\ b.tag = "Delete" ->
            IF a.pos <= b.pos
            THEN [a |-> a, b |-> OperationDelete(b.pos + Len(a.text), b.len)]
            ELSE IF a.pos >= b.pos + b.len
            THEN [a |-> OperationInsert(a.pos - b.len, a.text), b |-> b]
            ELSE [a |-> OperationInsert(b.pos, a.text),
                  b |-> OperationDelete(b.pos, b.len + Len(a.text))]
      [] a.tag = "Delete" /\ b.tag = "Insert" ->
            LET r == Transform(b, a)
            IN [a |-> r.b, b |-> r.a]
      [] OTHER -> [a |-> a, b |-> b]

\* The document after a call that returned.
Doc(chars) == [tag |-> "Doc", chars |-> chars]

\* String::insert_str and String::drain; both panic on a position past the end.
InsertStr(doc, pos, text) ==
    IF pos > Len(doc) THEN Abort("panic: insert_str out of bounds")
    ELSE Doc(SubSeq(doc, 1, pos) \o text \o SubSeq(doc, pos + 1, Len(doc)))
Drain(doc, pos, len) ==
    IF pos + len > Len(doc) THEN Abort("panic: drain out of bounds")
    ELSE Doc(SubSeq(doc, 1, pos) \o SubSeq(doc, pos + len + 1, Len(doc)))

\* OperationalTransform::apply: the document after the call.
Apply(doc, op) ==
    CASE op.tag = "Insert" -> InsertStr(doc, op.pos, op.text)
      [] op.tag = "Delete" -> Drain(doc, op.pos, op.len)
      [] op.tag = "Replace" ->
            LET d == Drain(doc, op.pos, op.len)
            IN IF IsAbort(d) THEN d ELSE InsertStr(d.chars, op.pos, op.text)

\* apply, then apply again on the document left by the first call.
ApplyBoth(doc, first, second) ==
    LET d == Apply(doc, first)
    IN IF IsAbort(d) THEN d ELSE Apply(d.chars, second)

(***************************************************************************)
(* Editing session: two editors hold the same document, each makes one     *)
(* operation, and each applies the other's operation transformed against   *)
(* its own.                                                                *)
(***************************************************************************)
\* The documents: the first characters of "pqr...", as codes.
Documents == {[k \in 1..n |-> 10 + k] : n \in 0..MaxDoc}
\* The texts inserted: the non-empty strings over "a", "b" up to MaxText long.
Texts == UNION {[1..n -> {1, 2}] : n \in 1..MaxText}
\* The Insert and Delete operations valid on doc.
ValidOperations(doc) ==
    LET Deletes == {OperationDelete(pos, len) : pos \in 0..Len(doc), len \in 0..Len(doc)}
    IN {OperationInsert(pos, text) : pos \in 0..Len(doc), text \in Texts}
         \cup {op \in Deletes : op.pos + op.len <= Len(doc)}

InitOT ==
    /\ max_depth = DefaultMaxDepth
    /\ ctx = ContextNew
    /\ ctx2 = ContextNew
    /\ log = <<>>
    /\ log2 = <<>>
    /\ call = NoCall

\* (a', b') = transform(a, b); one editor applies a then b', the other b then a'.
TransformCall ==
    /\ call = NoCall
    /\ \E doc \in Documents :
          \E a, b \in ValidOperations(doc) :
              LET r == Transform(a, b)
              IN call' = [op |-> "transform", doc |-> doc, a |-> a, b |-> b,
                          a2 |-> r.a, b2 |-> r.b,
                          left |-> ApplyBoth(doc, a, r.b),
                          right |-> ApplyBoth(doc, b, r.a)]
    /\ UNCHANGED <<max_depth, ctx, ctx2, log, log2>>

NextOT == TransformCall \/ Return

SpecOT == InitOT /\ [][NextOT]_vars

\* The insert position of one operation lies strictly inside the range the
\* other deletes.
InsertInsideDelete(ins, del) ==
    /\ ins.tag = "Insert"
    /\ del.tag = "Delete"
    /\ del.pos < ins.pos
    /\ ins.pos < del.pos + del.len

\* C30: for every document and every pair of concurrent Insert / Delete
\* operations a, b valid on it, with (a', b') = transform(a, b), applying a
\* then b' gives the same document as applying b then a'.
C30_OTConvergence == call.op = "transform" => call.left = call.right

====
